---- MODULE Spec2Model ----
(***************************************************************************)
(* Model of core/embedder.py: the Embedder component, its construction,    *)
(* the per-call merge of model_kwargs, the delegation to the model client  *)
(* and the optional output processor.                                      *)
(*                                                                         *)
(* Python dicts are objects on a heap (address -> mapping), so that        *)
(* copying and aliasing are different things.  Python values (responses,   *)
(* None, exceptions, inputs) are tagged tuples of strings.                 *)
(***************************************************************************)
EXTENDS Naturals, FiniteSets, Sequences, TLC

VARIABLES pc, heap, model_kwargs, output_processors, client,
          ncalls, nmut, ctor, last

vars == <<pc, heap, model_kwargs, output_processors, client,
          ncalls, nmut, ctor, last>>

(* ------------------------------ bounds -------------------------------- *)

\* how many times call is invoked on the one Embedder
MaxCalls == 2

\* how many times the caller mutates the mapping they constructed with
MaxMutations == 1

(* --------------------------- value universe --------------------------- *)

\* keys of a model_kwargs mapping: the required one, one that is spelled
\* like call's model_type keyword, and one that is spelled like the bound
\* parameter of update_default_model_kwargs
Keys == {"model", "model_type", "self"}

Vals == {"v1", "v2"}

\* the values a key takes: two models to choose from, one value elsewhere
ValsOf(k) == IF k = "model" THEN Vals ELSE {"v1"}

\* every dict with keys among Keys
Mappings == {m \in UNION {[S -> Vals] : S \in SUBSET Keys} :
                \A k \in DOMAIN m : m[k] \in ValsOf(k)}

EmptyDict == [k \in {} |-> "v1"]

None == <<"None">>

Inputs == {<<"str", "hello">>, <<"seq", "a", "b">>}

Responses == {<<"response", "r1">>, <<"response", "r2">>}

ClientErrors == {<<"ClientError", "network">>}

\* what the opaque client does when its call operation is invoked
ClientOutcomes == [kind : {"return"}, value : Responses]
                    \cup [kind : {"raise"}, value : ClientErrors]

\* output_processors: None, or a component; a Python object has a truth
\* value (__bool__/__len__), and None's is False
NoProcessor == [cls |-> "NoneType", truthy |-> FALSE, fn |-> "none"]

Processors == {[cls |-> "Component", truthy |-> TRUE, fn |-> "identity"],
               [cls |-> "Component", truthy |-> TRUE, fn |-> "normalize"],
               [cls |-> "Component", truthy |-> FALSE, fn |-> "normalize"]}

\* processor(response)
Apply(p, r) == IF p.fn = "identity" THEN r ELSE <<"processed">> \o r

\* bool(obj)
Truthy(p) == p.truthy

(* ------------------------------- heap --------------------------------- *)

NoRef == "null"

Put(h, a, m) == [x \in (DOMAIN h) \cup {a} |-> IF x = a THEN m ELSE h[x]]

\* the dicts that outlive a call: the caller's mapping and the stored one
\* (the keyword dict and the merged dict are referenced by nothing after it)
Collect(h) == [x \in (DOMAIN h) \cap {"caller", "stored"} |-> h[x]]

\* faulty variant: the same dict object instead of a copy
dict_alias(h, src, fresh) == [heap |-> h, ref |-> src]

\* dict.copy(): a new dict object with the same items
dict_copy(h, src, fresh) == [heap |-> Put(h, fresh, h[src]), ref |-> fresh]

(* ------------------------- Embedder.__init__ -------------------------- *)

model_type == "EMBEDDER"

\* faulty variant: only the empty mapping is refused
any_key_missing(m) == DOMAIN m = {}

\* faulty variant: no validation
never_missing(m) == FALSE

\* "model" not in model_kwargs
missing_model(m) == "model" \notin DOMAIN m

\* faulty variant: the client is initialised before the validation
EmbedderInit_InitFirst(h, kwargs_ref, proc, init_ok) ==
    LET c == dict_copy(h, kwargs_ref, "stored")
    IN  IF ~init_ok
        THEN [heap |-> c.heap, model_kwargs |-> c.ref,
              output_processors |-> proc, init_calls |-> 1,
              raised |-> <<"InitError">>]
        ELSE IF missing_model(c.heap[kwargs_ref])
        THEN [heap |-> c.heap, model_kwargs |-> c.ref,
              output_processors |-> proc, init_calls |-> 1,
              raised |-> <<"ValueError", "Embedder", "model">>]
        ELSE [heap |-> c.heap, model_kwargs |-> c.ref,
              output_processors |-> proc, init_calls |-> 1,
              raised |-> None]

\* __init__(model_client, model_kwargs, output_processors): copy, validate,
\* assign, initialise the client's synchronous channel
EmbedderInit(h, kwargs_ref, proc, init_ok) ==
    LET c == dict_copy(h, kwargs_ref, "stored")
    IN  IF missing_model(c.heap[kwargs_ref])
        THEN [heap |-> c.heap, model_kwargs |-> c.ref,
              output_processors |-> NoProcessor, init_calls |-> 0,
              raised |-> <<"ValueError", "Embedder", "model">>]
        ELSE IF ~init_ok
        THEN [heap |-> c.heap, model_kwargs |-> c.ref,
              output_processors |-> proc, init_calls |-> 1,
              raised |-> <<"InitError">>]
        ELSE [heap |-> c.heap, model_kwargs |-> c.ref,
              output_processors |-> proc, init_calls |-> 1,
              raised |-> None]

(* --------------------------- Embedder.call ---------------------------- *)

\* F.compose_model_kwargs(default_model_kwargs, model_kwargs): the merge
Merge(D, O) == [k \in (DOMAIN D) \cup (DOMAIN O) |->
                   IF k \in DOMAIN O THEN O[k] ELSE D[k]]

compose_model_kwargs(h, d, o) ==
    [heap |-> Put(h, "merged", Merge(h[d], h[o])), ref |-> "merged"]

\* the ** of self.update_default_model_kwargs(**model_kwargs): the items
\* are bound as keyword arguments of a method whose first parameter, self,
\* is already bound; the remaining ones are collected in a new dict
kwargs_unpack(h, o) ==
    IF "self" \in DOMAIN h[o]
    THEN [ok |-> FALSE, heap |-> h, ref |-> NoRef]
    ELSE [ok |-> TRUE, heap |-> Put(h, "kwargs", h[o]), ref |-> "kwargs"]

\* faulty variant: the stored defaults are updated and returned
update_default_in_place(h, self_ref, kw) ==
    [heap |-> Put(h, self_ref, Merge(h[self_ref], h[kw])), ref |-> self_ref]

\* update_default_model_kwargs(**model_kwargs)
update_default_model_kwargs(h, self_ref, kw) ==
    compose_model_kwargs(h, self_ref, kw)

NoArgs == [input |-> <<>>, model_kwargs |-> EmptyDict, model_type |-> "none"]

\* faulty variant: a "model_type" key of the merged mapping becomes the tag
client_call_args_typed(input, composed) ==
    [input |-> input, model_kwargs |-> composed,
     model_type |-> IF "model_type" \in DOMAIN composed
                    THEN composed["model_type"] ELSE model_type]

\* the arguments of self.model_client.call(...)
client_call_args(input, composed) ==
    [input |-> input, model_kwargs |-> composed, model_type |-> model_type]

\* faulty variant: the client's exception is swallowed
client_raised_suppressed(e) ==
    [client_calls |-> 1, proc_calls |-> 0, proc_arg |-> None,
     result |-> [kind |-> "return", value |-> None]]

\* model_client.call raised e: nothing catches it
client_raised(e) ==
    [client_calls |-> 1, proc_calls |-> 0, proc_arg |-> None,
     result |-> [kind |-> "raise", value |-> e]]

\* faulty variant: without a processor the raw response is returned
client_returned_raw(proc, response) ==
    IF Truthy(proc)
    THEN [client_calls |-> 1, proc_calls |-> 1, proc_arg |-> response,
          result |-> [kind |-> "return", value |-> Apply(proc, response)]]
    ELSE [client_calls |-> 1, proc_calls |-> 0, proc_arg |-> None,
          result |-> [kind |-> "return", value |-> response]]

\* model_client.call returned response:
\* if self.output_processors: return self.output_processors(response)
client_returned(proc, response) ==
    IF Truthy(proc)
    THEN [client_calls |-> 1, proc_calls |-> 1, proc_arg |-> response,
          result |-> [kind |-> "return", value |-> Apply(proc, response)]]
    ELSE [client_calls |-> 1, proc_calls |-> 0, proc_arg |-> None,
          result |-> [kind |-> "return", value |-> None]]

\* call(input, model_kwargs) with the caller's overrides dict at address o
\* and the client behaving as outcome
EmbedderCall(h, self_ref, proc, input, o, outcome) ==
    LET u == kwargs_unpack(h, o)
    IN  IF ~u.ok
        THEN [heap |-> h, sent |-> NoArgs, client_calls |-> 0,
              proc_calls |-> 0, proc_arg |-> None,
              result |-> [kind |-> "raise", value |-> <<"TypeError", "self">>]]
        ELSE LET c == update_default_model_kwargs(u.heap, self_ref, u.ref)
                 args == client_call_args(input, c.heap[c.ref])
                 rest == IF outcome.kind = "raise"
                         THEN client_raised(outcome.value)
                         ELSE client_returned(proc, outcome.value)
             IN  [heap |-> c.heap, sent |-> args,
                  client_calls |-> rest.client_calls,
                  proc_calls |-> rest.proc_calls,
                  proc_arg |-> rest.proc_arg,
                  result |-> rest.result]

(* ---------------------------- state machine --------------------------- *)

NoLast == [input |-> <<>>, overrides |-> EmptyDict,
           overrides_after |-> EmptyDict,
           outcome |-> [kind |-> "none", value |-> None],
           sent |-> NoArgs, client_calls |-> 0, proc_calls |-> 0,
           proc_arg |-> None, result |-> [kind |-> "none", value |-> None],
           nmut |-> 0]

Init ==
    /\ pc = "new"
    /\ heap = [a \in {} |-> EmptyDict]
    /\ model_kwargs = NoRef
    /\ output_processors = NoProcessor
    /\ client = [init_calls |-> 0, calls |-> 0]
    /\ ncalls = 0
    /\ nmut = 0
    /\ ctor = [kwargs |-> EmptyDict, init_ok |-> TRUE, raised |-> None,
               processor |-> NoProcessor]
    /\ last = NoLast

\* Embedder(model_client=c, model_kwargs=m, output_processors=proc): the
\* caller's mapping m lives at address "caller"
Construct ==
    \E m \in Mappings, proc \in Processors \cup {NoProcessor}, init_ok \in BOOLEAN :
        /\ pc = "new"
        /\ LET r == EmbedderInit(Put(heap, "caller", m), "caller", proc, init_ok)
           IN  /\ heap' = r.heap
               /\ model_kwargs' = r.model_kwargs
               /\ output_processors' = r.output_processors
               /\ client' = [client EXCEPT !.init_calls = @ + r.init_calls]
               /\ ctor' = [kwargs |-> m, init_ok |-> init_ok,
                           raised |-> r.raised, processor |-> proc]
               /\ pc' = IF r.raised = None THEN "ready"
                        ELSE IF r.raised[1] = "ValueError" THEN "config_error"
                        ELSE "init_error"
        /\ UNCHANGED <<ncalls, nmut, last>>

\* embedder.call(input=input, model_kwargs=O) with input among inputs and the
\* client behaving as one of outcomes: the caller's overrides dict O lives at
\* address "overrides" for the duration of the call
CallWith(inputs, outcomes) ==
    \E input \in inputs, O \in Mappings, outcome \in outcomes :
        /\ pc = "ready"
        /\ ncalls < MaxCalls
        /\ LET h0 == Put(heap, "overrides", O)
               r == EmbedderCall(h0, model_kwargs, output_processors,
                                 input, "overrides", outcome)
           IN  /\ heap' = Collect(r.heap)
               /\ client' = [client EXCEPT !.calls = @ + r.client_calls]
               /\ last' = [input |-> input, overrides |-> O,
                           overrides_after |-> r.heap["overrides"],
                           outcome |-> outcome, sent |-> r.sent,
                           client_calls |-> r.client_calls,
                           proc_calls |-> r.proc_calls,
                           proc_arg |-> r.proc_arg,
                           result |-> r.result, nmut |-> nmut]
        /\ ncalls' = ncalls + 1
        /\ UNCHANGED <<pc, model_kwargs, output_processors, nmut, ctor>>

Call == CallWith(Inputs, ClientOutcomes)

\* a call with one input and a client that answers
CallAnswered ==
    CallWith({<<"str", "hello">>},
             {[kind |-> "return", value |-> <<"response", "r1">>]})

\* the caller sets a key of the mapping they constructed the Embedder with
CallerSetsKey ==
    \E k \in Keys, v \in Vals :
        /\ pc = "ready"
        /\ nmut < MaxMutations
        /\ v \in ValsOf(k)
        /\ heap' = Put(heap, "caller",
                       [x \in (DOMAIN heap["caller"]) \cup {k} |->
                           IF x = k THEN v ELSE heap["caller"][x]])
        /\ heap'["caller"] # heap["caller"]
        /\ nmut' = nmut + 1
        /\ UNCHANGED <<pc, model_kwargs, output_processors, client, ncalls,
                       ctor, last>>

\* the caller removes a key of the mapping they constructed the Embedder with
CallerRemovesKey ==
    \E k \in Keys :
        /\ pc = "ready"
        /\ nmut < MaxMutations
        /\ k \in DOMAIN heap["caller"]
        /\ heap' = Put(heap, "caller",
                       [x \in (DOMAIN heap["caller"]) \ {k} |-> heap["caller"][x]])
        /\ nmut' = nmut + 1
        /\ UNCHANGED <<pc, model_kwargs, output_processors, client, ncalls,
                       ctor, last>>

\* construction and calls
Next == Construct \/ Call

Spec == Init /\ [][Next]_vars

\* construction, calls, and a caller who keeps changing their own mapping
NextMut == Construct \/ CallAnswered \/ CallerSetsKey \/ CallerRemovesKey

SpecMut == Init /\ [][NextMut]_vars

\* the stored defaults, self.model_kwargs
Stored == heap[model_kwargs]

\* the last call reached the client
ClientReached == ncalls > 0 /\ last.client_calls >= 1

(* ------------------------------ claims -------------------------------- *)

\* C1: construction raises ValueError for every model_kwargs mapping without
\* the key "model" (the empty one included) and succeeds for every mapping
\* with it, whatever else it holds, when the client's initialisation succeeds.
C1_ConstructionOutcome ==
    pc # "new" =>
        /\ "model" \notin DOMAIN ctor.kwargs =>
               (pc = "config_error" /\ ctor.raised[1] = "ValueError")
        /\ ("model" \in DOMAIN ctor.kwargs /\ ctor.init_ok) =>
               (pc = "ready" /\ ctor.raised = None)

C1_Witness ==
    /\ pc = "config_error"
    /\ DOMAIN ctor.kwargs = {"model_type", "self"}

\* C2 (as claimed): for every overrides mapping O passed to call, the client
\* receives merge(D, O), and O is unmodified after the call.
C2_ClientReceivesMerge ==
    ncalls > 0 =>
        /\ last.client_calls = 1
        /\ last.sent.model_kwargs = Merge(Stored, last.overrides)
        /\ last.overrides_after = last.overrides

\* what does hold of the merge: a call whose overrides have no key "self"
\* reaches the client once, with merge(D, O), and leaves O as it was; one
\* whose overrides have it ends in a TypeError before the client is reached
C2_MergeUnlessSelfKey ==
    ncalls > 0 =>
        /\ last.overrides_after = last.overrides
        /\ IF "self" \in DOMAIN last.overrides
           THEN /\ last.client_calls = 0
                /\ last.result = [kind |-> "raise", value |-> <<"TypeError", "self">>]
           ELSE /\ last.client_calls = 1
                /\ last.sent.model_kwargs = Merge(Stored, last.overrides)

\* C3: calls, whatever their overrides and however they end, leave the stored
\* defaults as they were right after construction, and each merged
\* configuration is built from those defaults.
C3_CallsLeaveDefaults ==
    (pc = "ready" /\ ncalls > 0) =>
        /\ Stored = ctor.kwargs
        /\ ClientReached =>
               \A k \in DOMAIN last.sent.model_kwargs :
                   k \notin DOMAIN last.overrides =>
                       /\ k \in DOMAIN ctor.kwargs
                       /\ last.sent.model_kwargs[k] = ctor.kwargs[k]

C3_Witness ==
    /\ pc = "ready"
    /\ ncalls >= 2
    /\ last.outcome.kind = "raise"
    /\ last.result.kind = "raise"
    /\ "model" \in DOMAIN last.overrides
    /\ last.overrides["model"] # ctor.kwargs["model"]

\* C4 (as claimed): with an output processor configured, whatever its own
\* properties, a call whose client invocation succeeds invokes the processor
\* once on the raw response and returns the processor's result.
C4_ProcessorAlwaysApplied ==
    (ClientReached /\ output_processors # NoProcessor
                   /\ last.outcome.kind = "return") =>
        /\ last.proc_calls = 1
        /\ last.proc_arg = last.outcome.value
        /\ last.result = [kind |-> "return",
                          value |-> Apply(output_processors, last.outcome.value)]

\* what does hold of the processor: it is applied once, to the raw response,
\* exactly when its truth value is True; a configured processor whose truth
\* value is False is skipped and the call returns None
C4_ProcessorAppliedWhenTruthy ==
    (ClientReached /\ last.outcome.kind = "return") =>
        IF Truthy(output_processors)
        THEN /\ last.proc_calls = 1
             /\ last.proc_arg = last.outcome.value
             /\ last.result = [kind |-> "return",
                               value |-> Apply(output_processors, last.outcome.value)]
        ELSE /\ last.proc_calls = 0
             /\ last.result = [kind |-> "return", value |-> None]

\* C5: with no output processor configured, a call whose client invocation
\* succeeds returns None whatever the response, and invoked the client once.
C5_NoProcessorReturnsNone ==
    (ClientReached /\ output_processors = NoProcessor
                   /\ last.outcome.kind = "return") =>
        /\ last.result = [kind |-> "return", value |-> None]
        /\ last.client_calls = 1
        /\ last.proc_calls = 0

C5_Witness ==
    /\ ClientReached
    /\ output_processors = NoProcessor
    /\ last.outcome = [kind |-> "return", value |-> <<"response", "r2">>]
    /\ last.result.value = None

\* C6: when the client's call raises, call ends with that same failure: one
\* client invocation, no processor invocation, nothing returned.
C6_ClientFailurePropagates ==
    (ClientReached /\ last.outcome.kind = "raise") =>
        /\ last.result = [kind |-> "raise", value |-> last.outcome.value]
        /\ last.client_calls = 1
        /\ last.proc_calls = 0

C6_Witness ==
    /\ ClientReached
    /\ last.outcome.kind = "raise"
    /\ Truthy(output_processors)
    /\ last.result.kind = "raise"

\* C7: whatever the caller does to their own mapping after construction
\* (setting or removing a key, "model" included), the stored defaults stay
\* what was passed at construction, and so does what later calls merge from.
C7_CallerMutationIsolated ==
    (pc = "ready" /\ nmut > 0) =>
        /\ Stored = ctor.kwargs
        /\ (ClientReached /\ last.nmut > 0) =>
               last.sent.model_kwargs = Merge(ctor.kwargs, last.overrides)

C7_Witness ==
    /\ pc = "ready"
    /\ nmut > 0
    /\ "model" \notin DOMAIN heap["caller"]
    /\ ClientReached
    /\ last.nmut > 0
    /\ "model" \notin DOMAIN last.overrides

\* C8: after a successful construction the stored mapping has the key
\* "model", and so has every merged configuration the client is handed: the
\* override's value when the overrides give one, the default's otherwise.
C8_ModelKeyAlwaysPresent ==
    pc = "ready" =>
        /\ "model" \in DOMAIN Stored
        /\ ClientReached =>
               /\ "model" \in DOMAIN last.sent.model_kwargs
               /\ last.sent.model_kwargs["model"] =
                      IF "model" \in DOMAIN last.overrides
                      THEN last.overrides["model"]
                      ELSE Stored["model"]

C8_Witness ==
    /\ pc = "ready"
    /\ ClientReached
    /\ "model" \in DOMAIN last.overrides
    /\ last.overrides["model"] # Stored["model"]
    /\ last.sent.model_kwargs["model"] = last.overrides["model"]

\* C9: the client's synchronous initialisation runs once in a construction
\* that passes validation, not at all in one that fails it, before any client
\* call, and never in call.
C9_InitOncePerConstruction ==
    /\ pc \in {"new", "config_error"} => client.init_calls = 0
    /\ pc \in {"ready", "init_error"} => client.init_calls = 1
    /\ client.calls > 0 => client.init_calls = 1

C9_Witness ==
    /\ pc = "ready"
    /\ ncalls >= 2
    /\ client.calls >= 2
    /\ client.init_calls = 1

\* C10: every client invocation made by call carries the tag EMBEDDER and
\* the caller's input as given, whatever keys the overrides hold.
C10_AlwaysEmbedderTag ==
    ClientReached =>
        /\ last.sent.model_type = "EMBEDDER"
        /\ last.sent.input = last.input

C10_Witness ==
    /\ ClientReached
    /\ "model_type" \in DOMAIN last.overrides
    /\ last.input = <<"seq", "a", "b">>
    /\ last.sent.model_type = "EMBEDDER"

====
